---- MODULE Spec2Model ----
(***************************************************************************)
(* A model of WPLT (src/src/wplt): the Figure with its plots, the          *)
(* CartesianPlane that tracks the axis bounds, the time-series evaluator   *)
(* and the tick-step planner with its tick generators.                     *)
(*                                                                         *)
(* Python numbers are modelled as exact rationals n/d in lowest terms      *)
(* (d > 0).  Float rounding error is not modelled: where two candidates    *)
(* are exactly equally far from a target (0.2 and 0.4 from 0.3) the floats *)
(* may break the tie the other way.  Python values are tagged records:     *)
(* "num", "ts" (a TimeSeries node), "list" (a list or array), "tuple" and  *)
(* "none" (None).                                                          *)
(*                                                                         *)
(* Six specifications share the variables: Spec (the figure and the        *)
(* static TimeSeries functions), SpecTicks (the tick generators, with      *)
(* SpecTicksFair for their termination), SpecRound (_round_steps as a      *)
(* function), SpecSearch (_round_steps one invocation at a time, with      *)
(* SpecSearchFair for its termination), SpecConfig (the display settings   *)
(* and direct recalculate calls) and SpecGlobal (the module-level figure   *)
(* of global_figure.py with preview and save).                             *)
(***************************************************************************)
EXTENDS Integers, Sequences, FiniteSets, TLC

VARIABLES
    plots,      \* Figure.plots: the plots appended so far
    video,      \* Figure.video
    x_left,     \* CartesianPlane.x_left  (None until set)
    x_right,    \* CartesianPlane.x_right
    x_fixed,    \* CartesianPlane.x_fixed
    y_bottom,   \* CartesianPlane.y_bottom
    y_top,      \* CartesianPlane.y_top
    y_fixed,    \* CartesianPlane.y_fixed
    call,       \* the last call made (on the figure or on TimeSeries) and its outcome
    gen,        \* the tick generator object of get_xsteps / get_ysteps
    rs,         \* the last call of _round_steps and its result
    config      \* the display settings: CartesianPlane.x_axis, y_axis, grid,
                \* grid_steps and Figure.use_legend, title_text

figVars == <<plots, video, call>>
planeVars == <<x_left, x_right, x_fixed, y_bottom, y_top, y_fixed>>
vars == <<plots, video, x_left, x_right, x_fixed, y_bottom, y_top, y_fixed,
          call, gen, rs, config>>

----------------------------------------------------------------------------
(* Bounds of the model *)

MaxPlots == 2       \* plots a figure holds at most
MaxLen == 2         \* elements of a container handed to the TimeSeries functions
MaxNum == 40        \* numerators of the targets handed to _round_steps
MaxExp == 4         \* powers of ten spanned by the reference nice sequence
MaxDepth == 2       \* nesting levels followed when looking for a node

(* Program constants *)

TIME_RANGE == 100
X_TICKS == 10
Y_TICKS == 8

----------------------------------------------------------------------------
(* Numbers *)

Abs(i) == IF i < 0 THEN -i ELSE i

Sign(i) == IF i < 0 THEN -1 ELSE IF i > 0 THEN 1 ELSE 0

\* The value of an expression, evaluated once.
Value(e) == CHOOSE v \in {e} : TRUE

RECURSIVE GCD(_, _)
GCD(a, b) ==
    IF b = 0 THEN a ELSE CHOOSE g \in { GCD(b, r) : r \in {a % b} } : TRUE

\* n/d (d > 0) divided through by the greatest common divisor.
Reduce(n, d) ==
    CHOOSE r \in { [tag |-> "num", n |-> n \div g, d |-> d \div g] :
                      g \in {GCD(Abs(n), d)} } : TRUE

\* The rational n/d (d # 0) in lowest terms.
Num(n, d) ==
    CHOOSE r \in { Reduce(Sign(b) * a, Abs(b)) : a \in {n}, b \in {d} } : TRUE

Int2Num(i) == Num(i, 1)

None == [tag |-> "none"]

IsNum(v) == v.tag = "num"

Add(p, q) == CHOOSE v \in { Num(a.n * b.d + b.n * a.d, a.d * b.d) : a \in {p}, b \in {q} } : TRUE
Sub(p, q) == CHOOSE v \in { Num(a.n * b.d - b.n * a.d, a.d * b.d) : a \in {p}, b \in {q} } : TRUE
Mul(p, q) == CHOOSE v \in { Num(a.n * b.n, a.d * b.d) : a \in {p}, b \in {q} } : TRUE
Div(p, q) == CHOOSE v \in { Num(a.n * b.d, a.d * b.n) : a \in {p}, b \in {q} } : TRUE
Lt(p, q) == p.n * q.d < q.n * p.d
Le(p, q) == p.n * q.d <= q.n * p.d
AbsNum(p) == Num(Abs(p.n), p.d)

\* Python's a // b on floats: the floor of the quotient.
FloorDiv(p, q) ==
    CHOOSE v \in { Int2Num(r.n \div r.d) : r \in {Div(p, q)} } : TRUE

RECURSIVE Pow10(_)
Pow10(k) ==
    IF k = 0 THEN Int2Num(1)
    ELSE IF k > 0 THEN Mul(Int2Num(10), Value(Pow10(k - 1)))
    ELSE Div(Value(Pow10(k + 1)), Int2Num(10))

\* The integer nearest to n/d, a tie going to the even one.
RoundHalfEven(n, d) ==
    LET f == n \div d
        twice == 2 * (n - f * d)
    IN  IF twice < d THEN f
        ELSE IF twice > d THEN f + 1
        ELSE IF f % 2 = 0 THEN f ELSE f + 1

\* Python's round(x, ndigits): to the nearest multiple of 10^-ndigits, a tie
\* going to the even multiple.
round(x, ndigits) ==
    CHOOSE v \in { Div(Int2Num(RoundHalfEven(s.n, s.d)), p) :
                      s \in {Mul(x, Pow10(ndigits))}, p \in {Pow10(ndigits)} } : TRUE

----------------------------------------------------------------------------
(* CartesianPlane._round_steps *)

\* The nested update_decimals: the new value of the nonlocal 'decimals'.
update_decimals(old, new, decimals) ==
    LET old_cmp == FloorDiv(old, Pow10(-decimals))
        new_cmp == FloorDiv(new, Pow10(-decimals))
    IN  IF Lt(new_cmp, old_cmp) THEN decimals + 1
        ELSE IF Lt(old_cmp, new_cmp) THEN decimals - 1
        ELSE decimals

\* The loop over alts with '<=' in place of '<': a later alternative that
\* is merely as close replaces the one kept.
RECURSIVE best_alt_ties(_, _, _, _)
best_alt_ties(num, alts, i, best) ==
    IF i > Len(alts) THEN best
    ELSE CHOOSE v \in
           { best_alt_ties(num, alts, i + 1, b) :
               b \in { IF Le(AbsNum(Sub(alts[i], num)), AbsNum(Sub(best, num)))
                       THEN alts[i] ELSE best } } : TRUE

\* The loop over alts: the alternative kept after scanning alts[i..].
RECURSIVE best_alt(_, _, _, _)
best_alt(num, alts, i, best) ==
    IF i > Len(alts) THEN best
    ELSE CHOOSE v \in
           { best_alt(num, alts, i + 1, b) :
               b \in { IF Lt(AbsNum(Sub(alts[i], num)), AbsNum(Sub(best, num)))
                       THEN alts[i] ELSE best } } : TRUE

RECURSIVE round_steps(_, _, _)
round_steps(num, start0, decimals) ==
    IF num.n = 0 THEN [step |-> Int2Num(0), decimals |-> 0]
    ELSE
        LET start == IF num.n < 0 /\ start0.n > 0
                     THEN Mul(start0, Int2Num(-1)) ELSE start0
            alts == << Div(start, Int2Num(5)), Div(start, Int2Num(2)),
                       Mul(start, Int2Num(2)), Mul(start, Int2Num(5)) >>
            best == best_alt(num, alts, 1, start)
        IN  IF best = start THEN [step |-> start, decimals |-> decimals]
            ELSE round_steps(num, best, update_decimals(start, best, decimals))

\* _round_steps(num) with its default arguments start=10.0, decimals=-1.
round_steps_default(num) == round_steps(num, Int2Num(10), -1)

----------------------------------------------------------------------------
(* time_series.py: TimeSeries nodes and the evaluator *)

\* TimeSeries(start, end)
TS(start, end) == [tag |-> "ts", start |-> Int2Num(start), end |-> Int2Num(end)]

\* A list or array, and a tuple.
List(items) == [tag |-> "list", items |-> items]
Tuple(items) == [tag |-> "tuple", items |-> items]

\* isinstance(obj, Iterable) and isinstance(obj, TimeObjectAbstract)
IsIterable(obj) == obj.tag \in {"list", "tuple"}
IsTimeObject(obj) == obj.tag = "ts"

\* TimeSeries.evaluate
evaluate(node, t) == Add(node.start, Mul(t, Sub(node.end, node.start)))

RECURSIVE evaluate_ext(_, _)
evaluate_ext(ext, t) ==
    IF IsTimeObject(ext) THEN evaluate(ext, t)
    ELSE IF IsIterable(ext)
         THEN List([i \in 1..Len(ext.items) |-> evaluate_ext(ext.items[i], t)])
         ELSE ext

evaluate_total(obj, t) ==
    IF IsIterable(obj)
    THEN List([i \in 1..Len(obj.items) |-> evaluate_ext(obj.items[i], t)])
    ELSE evaluate_ext(obj, t)

\* The check that scans every element of a container (not what the code does).
RECURSIVE contains_time_series_any(_)
contains_time_series_any(obj) ==
    IF IsIterable(obj)
    THEN IF Len(obj.items) = 0 THEN "None"
         ELSE IF \E i \in 1..Len(obj.items) :
                    contains_time_series_any(obj.items[i]) = "True"
              THEN "True" ELSE "False"
    ELSE IF IsTimeObject(obj) THEN "True" ELSE "False"

\* Returns "True", "False", or "None" when the for loop runs over no item.
RECURSIVE contains_time_series(_)
contains_time_series(obj) ==
    IF IsIterable(obj)
    THEN IF Len(obj.items) = 0 THEN "None"
         ELSE contains_time_series(obj.items[1])
    ELSE IF IsTimeObject(obj) THEN "True" ELSE "False"

----------------------------------------------------------------------------
(* figure.py: Plot, TimePlot and CartesianPlane.recalculate *)

\* Plot.evaluate: the result of a static plot.
Plot_evaluate(X, Y) == Tuple(<<X, Y>>)

\* A materializer that divides the frame index by TIME_RANGE (not what the
\* code does).
TimePlot_evaluate_uneven(X, Y) ==
    List([k \in 1..TIME_RANGE |->
            LET t == Num(k - 1, TIME_RANGE)
            IN  Tuple(<<evaluate_total(X, t), evaluate_total(Y, t)>>)])

\* TimePlot.evaluate: one (X, Y) frame per time step.
TimePlot_evaluate(X, Y) ==
    List([k \in 1..TIME_RANGE |->
            LET t == Num(k - 1, TIME_RANGE - 1)
            IN  Tuple(<<evaluate_total(X, t), evaluate_total(Y, t)>>)])

\* Python truthiness of a bound: None and zero are false.
Falsy(v) == v = None \/ (IsNum(v) /\ v.n = 0)

\* The for loop of find_min_max: _min = min(item, _min), _max = max(item, _max)
\* over every item leaves the least and the greatest of the seeds and the items.
scan_min_max(arr, mn, mx) ==
    LET lows == {mn} \cup { arr[i] : i \in 1..Len(arr) }
        highs == {mx} \cup { arr[i] : i \in 1..Len(arr) }
    IN  [raised |-> FALSE,
         min |-> CHOOSE v \in lows : \A w \in lows : Le(v, w),
         max |-> CHOOSE v \in highs : \A w \in highs : Le(w, v)]

\* The nested find_min_max; comparing a number with a node raises TypeError.
find_min_max(arr, prev_min, prev_max, is_fixed) ==
    LET mn == IF Falsy(prev_min) THEN arr[1] ELSE prev_min
        mx == IF Falsy(prev_max) THEN arr[1] ELSE prev_max
    IN  IF is_fixed THEN [raised |-> FALSE, min |-> mn, max |-> mx]
        ELSE IF \E i \in 1..Len(arr) : ~IsNum(arr[i])
             THEN [raised |-> TRUE]
             ELSE scan_min_max(arr, mn, mx)

\* [val for vals in values for val in vals[c]]; every frame of a plot holds
\* as many values as the first.
flatten(values, c) ==
    LET n == Len(values[1].items[c].items)
    IN  [j \in 1..(Len(values) * n) |->
            values[((j - 1) \div n) + 1].items[c].items[((j - 1) % n) + 1]]

\* CartesianPlane.recalculate from the flattening on, for an evaluated plot:
\* the bounds it leaves and whether it raised.
recalculate_bounds(plot) ==
    LET values == IF plot.kind = "TimePlot" THEN plot.result.items
                  ELSE <<plot.result>>
        same == [raised |-> "TypeError", x_left |-> x_left, x_right |-> x_right,
                 y_bottom |-> y_bottom, y_top |-> y_top]
    IN  IF \E k \in 1..Len(values), c \in 1..2 : ~IsIterable(values[k].items[c])
        THEN same
        ELSE
            LET fx == find_min_max(flatten(values, 1), x_left, x_right, x_fixed)
                fy == find_min_max(flatten(values, 2), y_bottom, y_top, y_fixed)
            IN  IF fx.raised THEN same
                ELSE IF fy.raised
                     THEN [same EXCEPT !.x_left = fx.min, !.x_right = fx.max]
                     ELSE [raised |-> "none", x_left |-> fx.min, x_right |-> fx.max,
                           y_bottom |-> fy.min, y_top |-> fy.max]

\* A recalculate that returns with the bounds as they are when the plot has
\* no result yet (not what the code does).
recalculate_silent(plot) ==
    IF plot.result = None
    THEN [raised |-> "none", x_left |-> x_left, x_right |-> x_right,
          y_bottom |-> y_bottom, y_top |-> y_top]
    ELSE recalculate_bounds(plot)

\* CartesianPlane.recalculate: a plot that was not evaluated is refused.
recalculate(plot) ==
    IF plot.result = None
    THEN [raised |-> "Exception", x_left |-> x_left, x_right |-> x_right,
          y_bottom |-> y_bottom, y_top |-> y_top]
    ELSE recalculate_bounds(plot)

----------------------------------------------------------------------------
(* Initial state: Figure.__init__ and CartesianPlane.__init__ *)

Init ==
    /\ plots = << >>
    /\ video = FALSE
    /\ x_left = None
    /\ x_right = None
    /\ x_fixed = FALSE
    /\ y_bottom = None
    /\ y_top = None
    /\ y_fixed = FALSE
    /\ call = [op |-> "init"]
    /\ gen = [pc |-> "none"]
    /\ rs = [called |-> FALSE]
    /\ config = [x_axis |-> FALSE, y_axis |-> FALSE, grid |-> FALSE,
                 grid_steps |-> None, use_legend |-> FALSE, title_text |-> None]

----------------------------------------------------------------------------
(* CartesianPlane.set_xrange / set_yrange *)

\* The integers offered to xrange and to yrange by the figure specification.
XRangeVals == {-1, 0, 5}
YRangeVals == {0, 5}

\* The integers offered to xrange and to yrange by the tick specification.
XTickRangeVals == {-5, 0, 1, 20, 35, 200, 220}
YTickRangeVals == {0, 8, 28}

\* The argument pairs offered to a range setter: every pair of distinct ends,
\* and one pair of equal ends.
RangeArgs(S) == { ab \in S \X S : ab[1] # ab[2] \/ ab[1] = 0 }

\* A set_xrange that keeps the range of an axis that is locked already (not
\* what the code does).
set_xrange_first_wins(a, b) ==
    IF a = b
    THEN /\ call' = [op |-> "set_xrange", x_left |-> a, x_right |-> b,
                     raised |-> "ValueError"]
         /\ UNCHANGED planeVars
    ELSE /\ x_left' = IF x_fixed THEN x_left ELSE Int2Num(a)
         /\ x_right' = IF x_fixed THEN x_right ELSE Int2Num(b)
         /\ x_fixed' = TRUE
         /\ call' = [op |-> "set_xrange", x_left |-> a, x_right |-> b,
                     raised |-> "none"]
         /\ UNCHANGED <<y_bottom, y_top, y_fixed>>

set_xrange(a, b) ==
    IF a = b
    THEN /\ call' = [op |-> "set_xrange", x_left |-> a, x_right |-> b,
                     raised |-> "ValueError"]
         /\ UNCHANGED planeVars
    ELSE /\ x_left' = Int2Num(a)
         /\ x_right' = Int2Num(b)
         /\ x_fixed' = TRUE
         /\ call' = [op |-> "set_xrange", x_left |-> a, x_right |-> b,
                     raised |-> "none"]
         /\ UNCHANGED <<y_bottom, y_top, y_fixed>>

set_yrange(a, b) ==
    IF a = b
    THEN /\ call' = [op |-> "set_yrange", y_bottom |-> a, y_top |-> b,
                     raised |-> "ValueError"]
         /\ UNCHANGED planeVars
    ELSE /\ y_bottom' = Int2Num(a)
         /\ y_top' = Int2Num(b)
         /\ y_fixed' = TRUE
         /\ call' = [op |-> "set_yrange", y_bottom |-> a, y_top |-> b,
                     raised |-> "none"]
         /\ UNCHANGED <<x_left, x_right, x_fixed>>

----------------------------------------------------------------------------
(* Figure.plot, Figure.xrange, Figure.yrange *)

\* The coordinate arguments offered to Figure.plot.
XInputs ==
    { List(<<Int2Num(0), Int2Num(2)>>), List(<<Int2Num(2)>>),
      List(<<Int2Num(-1), Int2Num(0)>>), TS(0, 1), List(<<TS(0, 1)>>),
      List(<<Int2Num(2), TS(0, 1)>>), List(<< >>), Int2Num(5) }

YInputs == { List(<<Int2Num(5)>>), List(<<Int2Num(-1), Int2Num(2)>>) }

plot(X, Y) ==
    IF ~(IsIterable(X) \/ IsTimeObject(X)) \/ ~(IsIterable(Y) \/ IsTimeObject(Y))
    THEN /\ call' = [op |-> "plot", X |-> X, Y |-> Y, raised |-> "TypeError"]
         /\ UNCHANGED <<plots, video, planeVars>>
    ELSE IF \/ (IsIterable(X) /\ Len(X.items) = 0)
            \/ (IsIterable(Y) /\ Len(Y.items) = 0)
            \/ (IsIterable(X) /\ IsIterable(Y) /\ Len(X.items) # Len(Y.items))
    THEN /\ call' = [op |-> "plot", X |-> X, Y |-> Y, raised |-> "ValueError"]
         /\ UNCHANGED <<plots, video, planeVars>>
    ELSE
        LET timed == \/ contains_time_series(X) = "True"
                     \/ contains_time_series(Y) = "True"
            new == [kind |-> IF timed THEN "TimePlot" ELSE "Plot",
                    X |-> X, Y |-> Y,
                    result |-> IF timed THEN TimePlot_evaluate(X, Y)
                               ELSE Plot_evaluate(X, Y)]
        IN  \E p \in {new} : \E rc \in {recalculate(p)} :
                /\ video' = (timed \/ video)
                /\ x_left' = rc.x_left
                /\ x_right' = rc.x_right
                /\ y_bottom' = rc.y_bottom
                /\ y_top' = rc.y_top
                /\ plots' = IF rc.raised = "none" THEN Append(plots, p) ELSE plots
                /\ call' = [op |-> "plot", X |-> X, Y |-> Y, raised |-> rc.raised]
                /\ UNCHANGED <<x_fixed, y_fixed>>

Plot ==
    /\ Len(plots) < MaxPlots
    /\ \E X \in XInputs, Y \in YInputs : plot(X, Y)
    /\ UNCHANGED <<gen, rs, config>>

XRange ==
    /\ \E ab \in RangeArgs(XRangeVals) : set_xrange(ab[1], ab[2])
    /\ UNCHANGED <<plots, video, gen, rs, config>>

YRange ==
    /\ \E ab \in RangeArgs(YRangeVals) : set_yrange(ab[1], ab[2])
    /\ UNCHANGED <<plots, video, gen, rs, config>>

----------------------------------------------------------------------------
(* Direct calls of the static TimeSeries functions.  Their results do not  *)
(* depend on the figure, so they are called on the fresh figure only.      *)

Leaves == { Int2Num(1), TS(0, 1) }

\* The containers of at most MaxLen elements of S.
Lists(S) == { List(q) : q \in UNION { [1..n -> S] : n \in 0..MaxLen } }

\* Numbers, nodes, and containers of numbers, nodes and containers of at most
\* one number or node.
Objects ==
    Leaves \cup Lists(Leaves \cup {List(<< >>)} \cup { List(<<v>>) : v \in Leaves })

\* Numbers, nodes and flat containers.
FlatObjects == Leaves \cup Lists(Leaves)

Times == { Num(0, 1), Num(1, 2), Num(1, 1) }

Fresh == plots = << >> /\ x_left = None /\ y_bottom = None /\ ~video

ContainsTimeSeriesCall ==
    /\ Fresh
    /\ \E obj \in Objects :
          call' = [op |-> "contains_time_series", obj |-> obj,
                   result |-> contains_time_series(obj)]
    /\ UNCHANGED <<plots, video, planeVars, gen, rs, config>>

EvaluateTotalCall ==
    /\ Fresh
    /\ \E obj \in FlatObjects, t \in Times :
          call' = [op |-> "evaluate_total", obj |-> obj, t |-> t,
                   result |-> evaluate_total(obj, t)]
    /\ UNCHANGED <<plots, video, planeVars, gen, rs, config>>

Next ==
    \/ Plot
    \/ XRange
    \/ YRange
    \/ ContainsTimeSeriesCall
    \/ EvaluateTotalCall

Spec == Init /\ [][Next]_vars

----------------------------------------------------------------------------
(* CartesianPlane.get_xsteps / get_ysteps: the tick generators.            *)
(* gen.pc is the generator's position: "while" before the loop test,       *)
(* "yield" suspended at the yield, "done" after the loop, "raised" when    *)
(* the body raised.  A generator is consumed by one for loop of the        *)
(* renderer (output.py), so the plane does not change while one is live.   *)

get_xdelta == AbsNum(Sub(x_right, x_left))

get_ydelta == AbsNum(Sub(y_top, y_bottom))

\* The generator body up to the loop test: the step, its precision and the
\* snapped first tick.
start_steps(axis, delta, ticks, lo) ==
    LET target == Div(delta, Int2Num(ticks))
        r == round_steps_default(target)
        first == round_steps_default(lo).step
    IN  [pc |-> "while", axis |-> axis, target |-> target, step |-> r.step,
         decimals |-> r.decimals, x |-> first, first |-> first,
         prev |-> None]

get_xsteps ==
    /\ gen.pc \in {"none", "done", "raised"}
    /\ gen' = IF IsNum(x_left) /\ IsNum(x_right)
              THEN start_steps("x", get_xdelta, X_TICKS, x_left)
              ELSE [pc |-> "raised"]
    /\ UNCHANGED <<figVars, planeVars, rs, config>>

get_ysteps ==
    /\ gen.pc \in {"none", "done", "raised"}
    /\ gen' = IF IsNum(y_bottom) /\ IsNum(y_top)
              THEN start_steps("y", get_ydelta, Y_TICKS, y_bottom)
              ELSE [pc |-> "raised"]
    /\ UNCHANGED <<figVars, planeVars, rs, config>>

\* The upper bound the live generator tests against.
gen_max == IF gen.axis = "x" THEN x_right ELSE y_top

\* while (x <= self.x_right): yield x
steps_while ==
    /\ gen.pc = "while"
    /\ gen' = IF Le(gen.x, gen_max)
              THEN [gen EXCEPT !.pc = "yield"]
              ELSE [gen EXCEPT !.pc = "done"]
    /\ UNCHANGED <<figVars, planeVars, rs, config>>

\* x = round(x+x_step, x_decimals), on resuming from the yield
steps_resume ==
    /\ gen.pc = "yield"
    /\ gen' = [gen EXCEPT !.pc = "while",
                          !.prev = gen.x,
                          !.x = round(Add(gen.x, gen.step), gen.decimals)]
    /\ UNCHANGED <<figVars, planeVars, rs, config>>

XRangeTicks ==
    /\ gen.pc = "none"
    /\ \E ab \in RangeArgs(XTickRangeVals) : set_xrange(ab[1], ab[2])
    /\ UNCHANGED <<plots, video, gen, rs, config>>

YRangeTicks ==
    /\ gen.pc = "none"
    /\ \E ab \in RangeArgs(YTickRangeVals) : set_yrange(ab[1], ab[2])
    /\ UNCHANGED <<plots, video, gen, rs, config>>

\* The single points plotted on the figure of the tick specification, (p, p)
\* for each p: such a plot leaves min = max on both axes.
TickPoints == {0, 3}

\* Figure.plot of a single point, before any generator is made
PlotTicks ==
    /\ gen.pc = "none"
    /\ plots = << >>
    /\ \E p \in TickPoints : plot(List(<<Int2Num(p)>>), List(<<Int2Num(p)>>))
    /\ UNCHANGED <<gen, rs, config>>

NextTicks ==
    \/ XRangeTicks
    \/ YRangeTicks
    \/ PlotTicks
    \/ get_xsteps
    \/ get_ysteps
    \/ steps_while
    \/ steps_resume

SpecTicks == Init /\ [][NextTicks]_vars

\* The renderer's for loops run each generator to exhaustion.
SpecTicksFair ==
    SpecTicks /\ WF_vars(steps_while) /\ WF_vars(steps_resume)

----------------------------------------------------------------------------
(* Direct calls of the tick-step planner *)

Targets == { Num(n, d) : n \in -MaxNum..MaxNum, d \in {1, Y_TICKS, X_TICKS} }

RoundStepsCall ==
    /\ \E num \in Targets :
          LET r == round_steps_default(num)
          IN  rs' = [called |-> TRUE, num |-> num,
                     step |-> r.step, decimals |-> r.decimals]
    /\ UNCHANGED <<figVars, planeVars, gen, config>>

NextRound == RoundStepsCall

SpecRound == Init /\ [][NextRound]_vars

----------------------------------------------------------------------------
(* CartesianPlane._round_steps, one invocation at a time.  Here rs is the  *)
(* frame of the current invocation: rs.pc is "search" while an invocation  *)
(* is about to run and "returned" after the return; rs.start and           *)
(* rs.decimals are the arguments it was entered with.                      *)

\* The seed an invocation works with: 'start *= -1' for a negative target.
seed_of(num, start0) ==
    IF num.n < 0 /\ start0.n > 0 THEN Mul(start0, Int2Num(-1)) ELSE start0

\* alts = [start/5, start/2, start*2, start*5]
alts_of(start) ==
    << Div(start, Int2Num(5)), Div(start, Int2Num(2)),
       Mul(start, Int2Num(2)), Mul(start, Int2Num(5)) >>

\* self._round_steps(num): the outermost invocation, with the default
\* arguments start=10.0 and decimals=-1
search_enter ==
    /\ IF rs.called THEN rs.pc = "returned" ELSE TRUE
    /\ \E num \in Targets :
          rs' = [called |-> TRUE, pc |-> "search", num |-> num,
                 start |-> Int2Num(10), decimals |-> -1, depth |-> 0]
    /\ UNCHANGED <<figVars, planeVars, gen, config>>

\* The body of one invocation, up to its return or its recursive call.
search_step ==
    /\ rs.called /\ rs.pc = "search"
    /\ \E start \in {seed_of(rs.num, rs.start)} :
       \E best \in {best_alt(rs.num, alts_of(start), 1, start)} :
          rs' = IF rs.num.n = 0
                THEN [rs EXCEPT !.pc = "returned", !.start = Int2Num(0),
                                !.decimals = 0]
                ELSE IF best = start
                THEN [rs EXCEPT !.pc = "returned", !.start = start]
                ELSE [rs EXCEPT !.start = best,
                                !.decimals = update_decimals(start, best,
                                                             rs.decimals),
                                !.depth = rs.depth + 1]
    /\ UNCHANGED <<figVars, planeVars, gen, config>>

NextSearch ==
    \/ search_enter
    \/ search_step

SpecSearch == Init /\ [][NextSearch]_vars

\* Python runs the body of an invocation that was entered.
SpecSearchFair == SpecSearch /\ WF_vars(search_step)

----------------------------------------------------------------------------
(* The display settings of the plane and of the figure, and recalculate    *)
(* called on the plane directly.                                           *)

\* A str.
Str(s) == [tag |-> "str", s |-> s]

\* The step counts offered to grid and the titles offered to title.
GridVals == {0, 1, 2}
Titles == {"", "A", "B"}

\* CartesianPlane.set_xaxis (through Figure.xaxis); warned: the notice logged
\* when the setting was made before.
set_xaxis ==
    /\ config' = [config EXCEPT !.x_axis = TRUE]
    /\ call' = [op |-> "set_xaxis", warned |-> config.x_axis, raised |-> "none"]
    /\ UNCHANGED <<plots, video, planeVars, gen, rs>>

\* CartesianPlane.set_yaxis (through Figure.yaxis)
set_yaxis ==
    /\ config' = [config EXCEPT !.y_axis = TRUE]
    /\ call' = [op |-> "set_yaxis", warned |-> config.y_axis, raised |-> "none"]
    /\ UNCHANGED <<plots, video, planeVars, gen, rs>>

\* CartesianPlane.set_grid
set_grid(x_steps, y_steps) ==
    IF x_steps = 0 \/ y_steps = 0
    THEN /\ call' = [op |-> "set_grid", x_steps |-> x_steps, y_steps |-> y_steps,
                     warned |-> FALSE, raised |-> "ValueError"]
         /\ UNCHANGED config
    ELSE /\ config' = [config EXCEPT
                          !.grid = TRUE,
                          !.grid_steps = Tuple(<<Int2Num(x_steps), Int2Num(y_steps)>>)]
         /\ call' = [op |-> "set_grid", x_steps |-> x_steps, y_steps |-> y_steps,
                     warned |-> config.grid, raised |-> "none"]

\* Figure.grid
grid ==
    /\ \E x_steps, y_steps \in GridVals : set_grid(x_steps, y_steps)
    /\ UNCHANGED <<plots, video, planeVars, gen, rs>>

\* Figure.legend
legend ==
    /\ config' = [config EXCEPT !.use_legend = TRUE]
    /\ call' = [op |-> "legend", warned |-> config.use_legend, raised |-> "none"]
    /\ UNCHANGED <<plots, video, planeVars, gen, rs>>

\* Figure.title
title ==
    /\ \E title_text \in Titles :
          IF title_text = ""
          THEN /\ call' = [op |-> "title", title_text |-> title_text,
                           warned |-> FALSE, raised |-> "ValueError"]
               /\ UNCHANGED config
          ELSE /\ config' = [config EXCEPT !.title_text = Str(title_text)]
               /\ call' = [op |-> "title", title_text |-> title_text,
                           warned |-> (config.title_text # None),
                           raised |-> "none"]
    /\ UNCHANGED <<plots, video, planeVars, gen, rs>>

\* The plots handed to recalculate: as constructed (result None) or evaluated.
DirectPlots ==
    { [kind |-> kind, X |-> X, Y |-> List(<<Int2Num(-1), Int2Num(2)>>),
       result |-> None] :
         kind \in {"Plot", "TimePlot"},
         X \in { List(<<Int2Num(0), Int2Num(2)>>), List(<<TS(0, 1), Int2Num(2)>>) } }
    \cup
    { [kind |-> "Plot", X |-> X, Y |-> Y, result |-> Plot_evaluate(X, Y)] :
         X \in { List(<<Int2Num(0), Int2Num(2)>>), List(<<Int2Num(-1), Int2Num(0)>>) },
         Y \in { List(<<Int2Num(-1), Int2Num(2)>>) } }

\* c_plane.recalculate(plot), called on the plane directly
Recalculate ==
    /\ \E p \in DirectPlots : \E rc \in {recalculate(p)} :
          /\ x_left' = rc.x_left
          /\ x_right' = rc.x_right
          /\ y_bottom' = rc.y_bottom
          /\ y_top' = rc.y_top
          /\ call' = [op |-> "recalculate", plot |-> p, raised |-> rc.raised]
    /\ UNCHANGED <<plots, video, x_fixed, y_fixed, gen, rs, config>>

NextConfig ==
    \/ XRange
    \/ YRange
    \/ set_xaxis
    \/ set_yaxis
    \/ grid
    \/ legend
    \/ title
    \/ Recalculate

SpecConfig == Init /\ [][NextConfig]_vars

----------------------------------------------------------------------------
(* output.py: the renderer, as far as it decides whether a render returns  *)
(* and which coordinates it draws.  An outcome is "none" (returned), the   *)
(* exception raised, or "diverges" (a tick loop that never ends).  The     *)
(* drawing calls of the imaging library are taken to return.  Numbers      *)
(* carry no type here, so a division by a zero span has two outcomes:      *)
(* ZeroDivisionError (Python numbers) and a non-finite value (array        *)
(* scalars), after which the render goes on.                               *)

\* The outcomes of running B after A: B runs only if A returned.
Then(A, B) == (A \ {"none"}) \cup (IF "none" \in A THEN B ELSE {})

\* CartesianPlane.normalize_coord
normalize_coord ==
    IF ~(IsNum(x_left) /\ IsNum(x_right) /\ IsNum(y_bottom) /\ IsNum(y_top))
    THEN {"TypeError"}
    ELSE IF x_left = x_right \/ y_bottom = y_top
         THEN {"ZeroDivisionError", "none"}
         ELSE {"none"}

\* Whether the loop of the tick generator g is left.  round is monotone, so a
\* tick that does not advance once never advances.
RECURSIVE steps_exhaust(_, _, _, _)
steps_exhaust(x, step, decimals, max) ==
    IF ~Le(x, max) THEN TRUE
    ELSE CHOOSE left \in
            { IF Le(nx, x) THEN FALSE ELSE steps_exhaust(nx, step, decimals, max) :
                 nx \in {round(Add(x, step), decimals)} } : TRUE

\* for x in get_xsteps(): normalize_coord((x, 0)) ...  (likewise for y)
tick_loop(axis) ==
    LET max == IF axis = "x" THEN x_right ELSE y_top
    IN  CHOOSE out \in
            { IF ~Le(g.x, max) THEN {"none"}
              ELSE Then(normalize_coord,
                        IF steps_exhaust(g.x, g.step, g.decimals, max)
                        THEN {"none"} ELSE {"diverges"}) :
                 g \in { IF axis = "x"
                         THEN start_steps("x", get_xdelta, X_TICKS, x_left)
                         ELSE start_steps("y", get_ydelta, Y_TICKS, y_bottom) } } : TRUE

\* _draw_c_plane: the grid lines, then the axes through normalize_coord((0, 0)).
draw_c_plane ==
    Then(IF config.grid THEN Then(tick_loop("x"), tick_loop("y")) ELSE {"none"},
         normalize_coord)

\* _draw_legend: no plot of the model carries a label, and max() of no label
\* raises.
draw_legend == IF config.use_legend THEN {"ValueError"} ELSE {"none"}

\* _add_borders and _draw_borders: the x ticks, then the y ticks.
add_borders == Then(tick_loop("x"), tick_loop("y"))

\* _plot_to_image: X, Y = coords, then a line between neighbouring points.
plot_to_image(coords) ==
    IF ~IsIterable(coords) THEN {"TypeError"}
    ELSE IF Len(coords.items) # 2 THEN {"ValueError"}
    ELSE LET X == coords.items[1]
             Y == coords.items[2]
             n == IF Len(X.items) < Len(Y.items) THEN Len(X.items) ELSE Len(Y.items)
         IN  IF ~IsIterable(X) \/ ~IsIterable(Y) THEN {"TypeError"}
             ELSE IF n < 2 THEN {"none"}
             ELSE IF \E i \in 1..n : ~IsNum(X.items[i]) \/ ~IsNum(Y.items[i])
                  THEN {"TypeError"}
                  ELSE normalize_coord

\* The coords convert_to_video hands to _plot_to_image for a plot at time step
\* fi (from 0): result[fi] whenever the result is an Iterable.
frame_coords(p, fi) ==
    IF IsIterable(p.result)
    THEN IF fi < Len(p.result.items)
         THEN [raised |-> "none", coords |-> p.result.items[fi + 1]]
         ELSE [raised |-> "IndexError"]
    ELSE [raised |-> "none", coords |-> p.result]

\* The outcomes of a sequence of jobs run in order, each a set of outcomes.
run_in_order(jobs) ==
    CHOOSE out \in
        { UNION { jobs[j] \ {"none"} :
                     j \in 1..(IF bad = {} THEN Len(jobs)
                               ELSE CHOOSE j \in bad : \A k \in bad : j <= k) }
              \cup (IF bad = {} THEN {"none"} ELSE {}) :
             bad \in { { j \in 1..Len(jobs) : "none" \notin jobs[j] } } } : TRUE

\* convert_to_image
convert_to_image ==
    Then(draw_c_plane,
    Then(run_in_order([i \in 1..Len(plots) |-> plot_to_image(plots[i].result)]),
    Then(draw_legend, add_borders)))

\* convert_to_video: every plot at every time step, then the legend, the
\* plane and the borders.
convert_to_video ==
    LET n == Len(plots)
        job(j) == LET c == frame_coords(plots[((j - 1) % n) + 1], (j - 1) \div n)
                  IN  IF c.raised # "none" THEN {c.raised}
                      ELSE plot_to_image(c.coords)
    IN  Then(run_in_order([j \in 1..(TIME_RANGE * n) |-> job(j)]),
        Then(draw_legend, Then(draw_c_plane, add_borders)))

\* Figure.preview
Figure_preview ==
    IF plots = << >> THEN {"Exception"}
    ELSE IF video THEN {"Exception"}
    ELSE convert_to_image

\* Figure.save
Figure_save ==
    IF plots = << >> THEN {"Exception"}
    ELSE IF video THEN convert_to_video
    ELSE convert_to_image

----------------------------------------------------------------------------
(* global_figure.py: the pass-through functions on the global figure.  In  *)
(* SpecGlobal the figure of the model is global_fig.                       *)

\* A render of the global figure is in a tick loop that never ends.
Hung == call.op \in {"preview", "save"} /\ call.raised = "diverges"

GlobalXInputs ==
    { List(<<Int2Num(0), Int2Num(2)>>), List(<<TS(0, 1), Int2Num(2)>>),
      List(<<TS(0, 1)>>), List(<<Int2Num(2)>>) }

GlobalYInputs == { List(<<Int2Num(-1), Int2Num(2)>>), List(<<Int2Num(5)>>) }

\* global_figure.plot
GlobalPlot ==
    /\ ~Hung
    /\ Len(plots) < MaxPlots
    /\ \E X \in GlobalXInputs, Y \in GlobalYInputs : plot(X, Y)
    /\ UNCHANGED <<gen, rs, config>>

\* global_figure.xrange
GlobalXRange ==
    /\ ~Hung
    /\ \E ab \in RangeArgs(XRangeVals) : set_xrange(ab[1], ab[2])
    /\ UNCHANGED <<plots, video, gen, rs, config>>

\* global_figure.preview: the plots are dropped once Figure.preview returned.
preview ==
    /\ ~Hung
    /\ \E raised \in Figure_preview :
          /\ call' = [op |-> "preview", plots |-> plots, video |-> video,
                      raised |-> raised]
          /\ plots' = IF raised = "none" THEN << >> ELSE plots
    /\ UNCHANGED <<video, planeVars, gen, rs, config>>

\* global_figure.save: the plots are dropped once Figure.save returned.
save ==
    /\ ~Hung
    /\ \E raised \in Figure_save :
          /\ call' = [op |-> "save", plots |-> plots, video |-> video,
                      raised |-> raised]
          /\ plots' = IF raised = "none" THEN << >> ELSE plots
    /\ UNCHANGED <<video, planeVars, gen, rs, config>>

NextGlobal ==
    \/ GlobalPlot
    \/ GlobalXRange
    \/ preview
    \/ save

SpecGlobal == Init /\ [][NextGlobal]_vars

----------------------------------------------------------------------------
(* Claims about the bounds tracker *)

\* The values a plot contributes to coordinate c (1 for X, 2 for Y).
PlotValues(p, c) ==
    LET values == IF p.kind = "TimePlot" THEN p.result.items ELSE <<p.result>>
    IN  UNION { { values[k].items[c].items[i] :
                     i \in 1..Len(values[k].items[c].items) } :
                k \in 1..Len(values) }

\* Every value recalculate was given for coordinate c.
Observed(c) == UNION { PlotValues(plots[i], c) : i \in 1..Len(plots) }

Least(S) == CHOOSE v \in S : \A w \in S : Le(v, w)
Greatest(S) == CHOOSE v \in S : \A w \in S : Le(w, v)

\* C1: on an axis that was never locked, the bounds are the true minimum
\* and maximum of all coordinate values the plots supplied.
C1_BoundsAreTrueMinMax ==
    /\ (~x_fixed /\ plots # << >>) =>
          x_left = Least(Observed(1)) /\ x_right = Greatest(Observed(1))
    /\ (~y_fixed /\ plots # << >>) =>
          y_bottom = Least(Observed(2)) /\ y_top = Greatest(Observed(2))

\* C2: once xrange / yrange has locked an axis, a plot call (and the
\* recalculate in it) leaves that axis's bounds as they were set.
C2_LockedBoundsFrozen ==
    [][ /\ (x_fixed /\ call'.op = "plot") =>
              (x_left' = x_left /\ x_right' = x_right)
        /\ (y_fixed /\ call'.op = "plot") =>
              (y_bottom' = y_bottom /\ y_top' = y_top) ]_vars

\* C3: on an unlocked axis with non-null bounds a plot call never raises the
\* lower bound and never lowers the upper bound.
C3_MonotoneWidening ==
    [][ /\ (~x_fixed /\ IsNum(x_left) /\ IsNum(x_right) /\ call'.op = "plot") =>
              (Le(x_left', x_left) /\ Le(x_right, x_right'))
        /\ (~y_fixed /\ IsNum(y_bottom) /\ IsNum(y_top) /\ call'.op = "plot") =>
              (Le(y_bottom', y_bottom) /\ Le(y_top, y_top')) ]_vars

----------------------------------------------------------------------------
(* Claims about the evaluator and the series materializer *)

\* The last call was plot(TimeSeries(0, 1), [5]).
RampPlotCalled ==
    /\ call.op = "plot"
    /\ call.X = TS(0, 1)
    /\ call.Y = List(<<Int2Num(5)>>)

\* C8: plotting X = TimeSeries(0, 1) with Y constant 5 completes without
\* error and leaves an animated series of TIME_RANGE frames, Y being 5 in
\* every frame and X rising linearly from 0 in the first frame to 1 in the
\* last.
C8_RampPlotCompletes ==
    RampPlotCalled =>
        /\ call.raised = "none"
        /\ plots # << >>
        /\ LET p == plots[Len(plots)]
           IN  /\ p.kind = "TimePlot"
               /\ Len(p.result.items) = TIME_RANGE
               /\ \A k \in 1..TIME_RANGE :
                     /\ p.result.items[k].items[2] = List(<<Int2Num(5)>>)
                     /\ p.result.items[k].items[1] =
                            List(<<Num(k - 1, TIME_RANGE - 1)>>)

\* C9: evaluate_total always returns an array: one element per element of
\* an iterable input, and a length-1 array holding the scalar evaluation of
\* a node or a scalar.
C9_EvaluateTotalArray ==
    call.op = "evaluate_total" =>
        /\ call.result.tag = "list"
        /\ IsIterable(call.obj) =>
              Len(call.result.items) = Len(call.obj.items)
        /\ ~IsIterable(call.obj) =>
              call.result = List(<<evaluate_ext(call.obj, call.t)>>)

\* What is reached from obj by taking the first element k times.
RECURSIVE Descend(_, _)
Descend(obj, k) ==
    IF k = 0 THEN obj
    ELSE IF IsIterable(obj) /\ Len(obj.items) > 0
         THEN Descend(obj.items[1], k - 1)
         ELSE None

\* A node is reached by following only first elements.
NodeOnFirstPath(obj) == \E k \in 0..MaxDepth : IsTimeObject(Descend(obj, k))

\* C10: contains_time_series is true exactly when a node is reached by
\* following only the first element at each nesting level, and a plot is
\* animated exactly when that holds of its X or of its Y.
C10_FirstElementRule ==
    /\ call.op = "contains_time_series" =>
          ((call.result = "True") <=> NodeOnFirstPath(call.obj))
    /\ \A i \in 1..Len(plots) :
          (plots[i].kind = "TimePlot") <=>
              (NodeOnFirstPath(plots[i].X) \/ NodeOnFirstPath(plots[i].Y))

\* A container with a node behind a number was plotted and is held as a
\* static plot.
C10_Witness ==
    /\ call.op = "plot"
    /\ call.raised = "none"
    /\ call.X = List(<<Int2Num(2), TS(0, 1)>>)
    /\ plots[Len(plots)].kind = "Plot"
    /\ plots[Len(plots)].X = call.X
    /\ \E i \in 1..Len(plots) : plots[i].kind = "TimePlot"

----------------------------------------------------------------------------
(* Claims about the tick generators and the tick-step planner *)

\* A generator is in its loop, on an axis with axis_min < axis_max.
GenLiveAscendingAxis ==
    /\ gen.pc \in {"while", "yield"}
    /\ IF gen.axis = "x" THEN Lt(x_left, x_right) ELSE Lt(y_bottom, y_top)

\* The generator has left its loop (StopIteration).
GenDone == gen.pc = "done"

\* C4: for axis bounds with axis_min < axis_max, iterating the tick
\* generator terminates: a live generator eventually leaves its loop.
C4_TicksTerminate == GenLiveAscendingAxis ~> GenDone

\* C5: every yielded tick is at most axis_max, at least the snapped start
\* value, and strictly greater than the tick yielded before it.
C5_TicksAscending ==
    gen.pc = "yield" =>
        /\ Le(gen.x, gen_max)
        /\ Le(gen.first, gen.x)
        /\ (IsNum(gen.prev) => Lt(gen.prev, gen.x))

\* C6: _round_steps returns step 10 for target 100/10, step 0.1 for target
\* 1/10, and step 0 with precision 0 for target 0.
C6_RoundStepsExamples ==
    rs.called =>
        /\ (rs.num = Num(100, 10) => rs.step = Int2Num(10))
        /\ (rs.num = Num(1, 10) => rs.step = Num(1, 10))
        /\ (rs.num = Int2Num(0) => rs.step = Int2Num(0) /\ rs.decimals = 0)

\* The nice sequence ..., 0.1, 0.2, 0.5, 1, 2, 5, 10, 20, 50, ...
NiceSeq == { Mul(Int2Num(m), Pow10(k)) : m \in {1, 2, 5}, k \in -MaxExp..MaxExp }

\* C7: for a nonzero target the returned step is a member of the nice
\* sequence (negated for a negative target) and the member closest to the
\* target.
C7_RoundStepsNice ==
    rs.called /\ rs.num.n # 0 =>
        LET s == AbsNum(rs.step)
            t == AbsNum(rs.num)
        IN  /\ Sign(rs.step.n) = Sign(rs.num.n)
            /\ s \in NiceSeq
            /\ \A m \in NiceSeq : Le(AbsNum(Sub(s, t)), AbsNum(Sub(m, t)))

----------------------------------------------------------------------------
(* Claims about the global figure and the renderer *)

\* C11: after every call of the global preview() or save() (one that has
\* come back, with or without an exception), the global figure's list of
\* plots is empty.
C11_GlobalFigureReset ==
    (call.op \in {"preview", "save"} /\ ~Hung) => plots = << >>

HasTimePlot(ps) == \E i \in 1..Len(ps) : ps[i].kind = "TimePlot"
HasPlot(ps) == \E i \in 1..Len(ps) : ps[i].kind = "Plot"

\* C18: in every reachable state the figure's video flag is true exactly
\* when its list of plots holds a TimePlot; so a preview() of a figure with
\* plots is rejected exactly when one of them is a TimePlot.
C18_VideoIffTimePlot ==
    /\ video <=> HasTimePlot(plots)
    /\ (call.op = "preview" /\ call.plots # << >>) =>
          ((call.raised = "Exception") <=> HasTimePlot(call.plots))

\* C19: when save() renders a figure holding both static and animated plots
\* as a video, the composition of the time steps raises nothing, and at every
\* time step it draws the frame of that step for an animated plot and the
\* one (X, Y) pair for a static plot.
C19_MixedVideoComposes ==
    (call.op = "save" /\ call.video /\ HasTimePlot(call.plots) /\ HasPlot(call.plots)) =>
        /\ call.raised \notin {"TypeError", "ValueError", "IndexError"}
        /\ \A i \in 1..Len(call.plots), fi \in 0..(TIME_RANGE - 1) :
              frame_coords(call.plots[i], fi) =
                  [raised |-> "none",
                   coords |-> IF call.plots[i].kind = "TimePlot"
                              THEN call.plots[i].result.items[fi + 1]
                              ELSE call.plots[i].result]

----------------------------------------------------------------------------
(* Claims about the materialized frames *)

\* v is what the coordinate element elem is worth in the frame of index i
\* (from 0): a number is itself, and a node from start to end is the v with
\* v * (TIME_RANGE - 1) = start * (TIME_RANGE - 1) + i * (end - start).
FrameValue(elem, v, i) ==
    IF IsTimeObject(elem)
    THEN /\ IsNum(v)
         /\ Mul(v, Int2Num(TIME_RANGE - 1)) =
               Add(Mul(elem.start, Int2Num(TIME_RANGE - 1)),
                   Mul(Int2Num(i), Sub(elem.end, elem.start)))
    ELSE v = elem

\* C12: a materialized animated plot holds exactly TIME_RANGE frames in
\* order; the frame of index i is the X and Y inputs evaluated, element by
\* element, at t_i = i / (TIME_RANGE - 1); so the first frame is at t = 0
\* (a node is worth its start), the last at t = 1 (its end), and a rising
\* node is worth strictly more in each frame than in the one before.
C12_FramesEvenlySpaced ==
    \A q \in 1..Len(plots) :
        plots[q].kind = "TimePlot" =>
            LET p == plots[q]
                frames == p.result.items
                input(c) == IF c = 1 THEN p.X ELSE p.Y
            IN  /\ Len(frames) = TIME_RANGE
                /\ \A c \in 1..2 :
                      IsIterable(input(c)) =>
                          \A j \in 1..Len(input(c).items) :
                              LET elem == input(c).items[j]
                                  at(i) == frames[i + 1].items[c].items[j]
                              IN  /\ \A i \in 0..(TIME_RANGE - 1) :
                                        /\ Len(frames[i + 1].items[c].items) =
                                              Len(input(c).items)
                                        /\ FrameValue(elem, at(i), i)
                                  /\ IsTimeObject(elem) =>
                                        /\ at(0) = elem.start
                                        /\ at(TIME_RANGE - 1) = elem.end
                                        /\ Lt(elem.start, elem.end) =>
                                              \A i \in 1..(TIME_RANGE - 1) :
                                                  Lt(at(i - 1), at(i))

\* An animated plot of a node next to a number is held: its last frame has
\* the node at its end value and the number as it is.
C12_Witness ==
    \E q \in 1..Len(plots) :
        /\ plots[q].kind = "TimePlot"
        /\ plots[q].X = List(<<TS(0, 1), Int2Num(2)>>)
        /\ plots[q].result.items[TIME_RANGE].items[1] =
              List(<<Int2Num(1), Int2Num(2)>>)

----------------------------------------------------------------------------
(* Claims about the plane's preconditions and the display settings *)

\* C13: recalculate called with a plot that was not evaluated (its result is
\* still None) raises, and leaves the four bounds and the two lock flags as
\* they were.
C13_UnmaterializedRefused ==
    [][ (call'.op = "recalculate" /\ call'.plot.result = None) =>
            (call'.raised # "none" /\ planeVars' = planeVars) ]_vars

\* A plot that was not evaluated was refused by a plane that has unlocked
\* bounds from an earlier plot.
C13_Witness ==
    /\ call.op = "recalculate"
    /\ call.plot.result = None
    /\ call.raised = "Exception"
    /\ IsNum(x_left)
    /\ ~x_fixed

\* C14: a setting applied again with valid arguments never raises and the
\* last write wins: set_xrange(c, d) leaves the x bounds (c, d) and the axis
\* locked, whatever they were (likewise set_yrange); set_grid leaves its
\* arguments in grid_steps; title leaves its argument in title_text; xaxis,
\* yaxis and legend leave their flag true.
C14_LastWriteWins ==
    [][ /\ (call'.op = "set_xrange" /\ call'.x_left # call'.x_right) =>
              /\ call'.raised = "none"
              /\ x_left' = Int2Num(call'.x_left)
              /\ x_right' = Int2Num(call'.x_right)
              /\ x_fixed'
        /\ (call'.op = "set_yrange" /\ call'.y_bottom # call'.y_top) =>
              /\ call'.raised = "none"
              /\ y_bottom' = Int2Num(call'.y_bottom)
              /\ y_top' = Int2Num(call'.y_top)
              /\ y_fixed'
        /\ (call'.op = "set_grid" /\ call'.x_steps # 0 /\ call'.y_steps # 0) =>
              /\ call'.raised = "none"
              /\ config'.grid
              /\ config'.grid_steps =
                    Tuple(<<Int2Num(call'.x_steps), Int2Num(call'.y_steps)>>)
        /\ (call'.op = "title" /\ call'.title_text # "") =>
              /\ call'.raised = "none"
              /\ config'.title_text = Str(call'.title_text)
        /\ call'.op = "set_xaxis" => (call'.raised = "none" /\ config'.x_axis)
        /\ call'.op = "set_yaxis" => (call'.raised = "none" /\ config'.y_axis)
        /\ call'.op = "legend" => (call'.raised = "none" /\ config'.use_legend)
      ]_vars

\* The grid was set a second time, on a figure whose x axis is locked and
\* whose title was set, and holds the second arguments.
C14_Witness ==
    /\ call.op = "set_grid"
    /\ call.warned
    /\ call.raised = "none"
    /\ config.grid_steps = Tuple(<<Int2Num(2), Int2Num(1)>>)
    /\ x_fixed
    /\ config.title_text # None

----------------------------------------------------------------------------
(* More claims about the tick generators and the tick-step planner *)

\* A generator is in its loop, on an axis with axis_min = axis_max.
GenLiveZeroSpan ==
    /\ gen.pc \in {"while", "yield"}
    /\ IF gen.axis = "x" THEN x_left = x_right ELSE y_bottom = y_top

\* C15: on a zero-span axis (axis_min = axis_max, as a single plotted point
\* leaves it) the tick generator takes step 0 and iterating it terminates: a
\* live generator eventually leaves its loop.
C15_ZeroSpanTicksTerminate == GenLiveZeroSpan ~> GenDone

\* C16: for every nonzero target the step and the precision returned by
\* _round_steps agree: round(step, decimals) is the step itself.
C16_StepFitsPrecision ==
    (rs.called /\ rs.num.n # 0) => round(rs.step, rs.decimals) = rs.step

\* The distance of a seed from the target of the current search.
Distance(seed) == AbsNum(Sub(seed, rs.num))

Searching == rs.called /\ rs.pc = "search"

Returned == rs.called /\ rs.pc = "returned"

\* An invocation that calls itself hands over a seed strictly closer to the
\* target than the seed it worked with.
RecursionStrictlyCloser ==
    (Searching /\ rs'.pc = "search")
        => Lt(AbsNum(Sub(rs'.start, rs.num)),
              AbsNum(Sub(seed_of(rs.num, rs.start), rs.num)))

\* The seed returned for a nonzero target is at least as close to it as each
\* of seed/5, seed/2, seed*2, seed*5.
ReturnedSeedClosest ==
    (Returned /\ rs.num.n # 0)
        => \A i \in 1..4 : Le(Distance(rs.start), Distance(alts_of(rs.start)[i]))

====
